---------------------------- MODULE Spec2Model ----------------------------
(***************************************************************************)
(* B2F message codec (b2f.py) and the mailbox importer (import-to-db.py).  *)
(*                                                                         *)
(* A byte string and a text string are both sequences of one-symbol        *)
(* strings.  ASCII bytes and ASCII characters share their symbol; the one  *)
(* non-ASCII byte of the model is HiByte and the character Latin-1 decodes *)
(* it to is HiChar.  CR and LF are the two bytes of the line break.        *)
(***************************************************************************)
EXTENDS Integers, Sequences, FiniteSets, TLC

VARIABLES
    data,       \* parse: the input buffer (bytes)
    parsed,     \* parse: the outcome, [ok, err, msg]
    msg,        \* to_lines/to_bytes: the message being encoded (self)
    chunks,     \* to_lines: the yielded chunks, in order
    encoded,    \* to_bytes: the joined bytes
    reparsed,   \* parse applied to the encoded bytes
    pc,         \* position of the codec harness
    mailbox,    \* importer: file name -> contents, the *.b2f files of mailbox_path
    imported,   \* importer: file name -> contents, the files of mailbox_path/imported
    todo,       \* importer: names the glob has not yet yielded
    messageTbl, \* importer: rows of table message
    attachTbl,  \* importer: rows of table attachment
    cur,        \* importer: f, the file of the current iteration
    ipc,        \* importer: position of the script
    inserted    \* importer: names whose parse_file call returned (history)

vars == <<data, parsed, msg, chunks, encoded, reparsed, pc,
          mailbox, imported, todo, messageTbl, attachTbl, cur, ipc, inserted>>

codecVars == <<data, parsed, msg, chunks, encoded, reparsed, pc>>
importVars == <<mailbox, imported, todo, messageTbl, attachTbl, cur, ipc, inserted>>

-----------------------------------------------------------------------------
(* Bytes and characters *)

CR == "CR"
LF == "LF"
CRLF == <<CR, LF>>
HiByte == "xE9"
HiChar == "U+00E9"

Digits == <<"0", "1", "2", "3", "4", "5", "6", "7", "8", "9">>

IsDigit(c) == \E i \in 1..10 : Digits[i] = c

DigitVal(c) == (CHOOSE i \in 1..10 : Digits[i] = c) - 1

Upper == <<"A","B","C","D","E","F","G","H","I","J","K","L","M",
           "N","O","P","Q","R","S","T","U","V","W","X","Y","Z">>
Lower == <<"a","b","c","d","e","f","g","h","i","j","k","l","m",
           "n","o","p","q","r","s","t","u","v","w","x","y","z">>

\* str.casefold on one character (ASCII: the upper-case letters fold)
FoldChar(c) ==
    IF \E i \in 1..26 : Upper[i] = c
    THEN Lower[CHOOSE i \in 1..26 : Upper[i] = c]
    ELSE c

\* str.casefold
Casefold(s) == [i \in 1..Len(s) |-> FoldChar(s[i])]

-----------------------------------------------------------------------------
(* Python sequence primitives *)

\* s[from:to] with 0-based offsets, clamped the way Python slices are
\* (an offset past the end yields a shorter or empty result, a negative
\* offset counts from the end)
Slice(s, from, to) ==
    LET n == Len(s)
        norm(i) == IF i < 0 THEN (IF n + i < 0 THEN 0 ELSE n + i)
                   ELSE (IF i > n THEN n ELSE i)
        a == norm(from)
        b == norm(to)
    IN  IF a >= b THEN <<>> ELSE SubSeq(s, a + 1, b)

\* s.find(sep): 0-based offset of the first occurrence, -1 when absent
Find(s, sep) ==
    LET k == Len(sep)
        hits == {i \in 1..(Len(s) - k + 1) : SubSeq(s, i, i + k - 1) = sep}
    IN  IF hits = {} THEN -1
        ELSE (CHOOSE i \in hits : \A j \in hits : i <= j) - 1

\* s.partition(sep): <<before, sep, after>>; <<s, "", "">> when sep is absent
Partition(s, sep) ==
    LET i == Find(s, sep)
    IN  IF i < 0 THEN <<s, <<>>, <<>>>>
        ELSE <<SubSeq(s, 1, i), sep, SubSeq(s, i + Len(sep) + 1, Len(s))>>

\* 1-based index of the first line break byte of s, 0 when there is none
FirstBreak(s) ==
    LET at == {i \in 1..Len(s) : s[i] \in {CR, LF}}
    IN  IF at = {} THEN 0 ELSE CHOOSE i \in at : \A j \in at : i <= j

\* str.splitlines(): breaks at CR LF, CR and LF; no empty last line
RECURSIVE SplitLines(_)
SplitLines(s) ==
    IF s = <<>> THEN <<>>
    ELSE LET i == FirstBreak(s)
             n == IF s[i] = CR /\ i < Len(s) /\ s[i + 1] = LF THEN 2 ELSE 1
         IN  IF i = 0 THEN <<s>>
             ELSE <<SubSeq(s, 1, i - 1)>> \o SplitLines(SubSeq(s, i + n, Len(s)))

\* sep.join(parts)
RECURSIVE Join(_, _)
Join(sep, parts) ==
    IF parts = <<>> THEN <<>>
    ELSE IF Len(parts) = 1 THEN parts[1]
    ELSE parts[1] \o sep \o Join(sep, Tail(parts))

\* s.strip() of blanks, as int() does before reading the digits
RECURSIVE LStrip(_)
LStrip(s) == IF s # <<>> /\ Head(s) = " " THEN LStrip(Tail(s)) ELSE s

RECURSIVE RStrip(_)
RStrip(s) ==
    IF s # <<>> /\ s[Len(s)] = " " THEN RStrip(SubSeq(s, 1, Len(s) - 1)) ELSE s

RECURSIVE DigitsVal(_)
DigitsVal(s) ==
    IF s = <<>> THEN 0
    ELSE 10 * DigitsVal(SubSeq(s, 1, Len(s) - 1)) + DigitVal(s[Len(s)])

AllDigits(s) == s # <<>> /\ \A i \in 1..Len(s) : IsDigit(s[i])

\* int(s): <<TRUE, n>>, or <<FALSE, 0>> for the ValueError
ParseInt(s) ==
    LET t == RStrip(LStrip(s))
        signed == t # <<>> /\ Head(t) \in {"+", "-"}
        d == IF signed THEN Tail(t) ELSE t
    IN  IF ~AllDigits(d) THEN <<FALSE, 0>>
        ELSE IF signed /\ Head(t) = "-" THEN <<TRUE, 0 - DigitsVal(d)>>
        ELSE <<TRUE, DigitsVal(d)>>

\* str(n) for an integer
RECURSIVE NatStr(_)
NatStr(n) ==
    IF n < 10 THEN <<Digits[n + 1]>>
    ELSE Append(NatStr(n \div 10), Digits[(n % 10) + 1])

IntStr(n) == IF n < 0 THEN <<"-">> \o NatStr(0 - n) ELSE NatStr(n)

-----------------------------------------------------------------------------
(* Ordered dictionaries: a sequence of [k, v] entries with distinct keys *)

DictHas(d, k) == \E i \in 1..Len(d) : d[i].k = k

DictGet(d, k) == d[CHOOSE i \in 1..Len(d) : d[i].k = k].v

\* d[k] = v: an existing key keeps its position
DictSet(d, k, v) ==
    IF DictHas(d, k)
    THEN [i \in 1..Len(d) |-> IF d[i].k = k THEN [k |-> k, v |-> v] ELSE d[i]]
    ELSE Append(d, [k |-> k, v |-> v])

\* del d[k]
RECURSIVE DictDel(_, _)
DictDel(d, k) ==
    IF d = <<>> THEN <<>>
    ELSE IF d[1].k = k THEN Tail(d)
    ELSE <<d[1]>> \o DictDel(Tail(d), k)

DictKeys(d) == [i \in 1..Len(d) |-> d[i].k]

-----------------------------------------------------------------------------
(* Text of the header names and codec names the code spells out *)

MidS == <<"m","i","d">>
DateS == <<"d","a","t","e">>
TypeS == <<"t","y","p","e">>
FromS == <<"f","r","o","m">>
ToS == <<"t","o">>
CcS == <<"c","c">>
SubjectS == <<"s","u","b","j","e","c","t">>
MboS == <<"m","b","o">>
BodyS == <<"b","o","d","y">>
FileS == <<"f","i","l","e">>
ContentTypeS == <<"c","o","n","t","e","n","t","-","t","y","p","e">>

KNOWN_B2F_HEADERS ==
    <<MidS, DateS, TypeS, FromS, ToS, CcS, SubjectS, MboS, BodyS, FileS>>

IsKnown(k) == \E i \in 1..Len(KNOWN_B2F_HEADERS) : KNOWN_B2F_HEADERS[i] = k

Latin1S == <<"i","s","o","-","8","8","5","9","-","1">>
Utf8S == <<"u","t","f","-","8">>
AsciiS == <<"a","s","c","i","i">>

-----------------------------------------------------------------------------
(* Codecs *)

IsAscii(s) == \A i \in 1..Len(s) : s[i] \notin {HiByte, HiChar}

\* bytes.decode(codec): <<err, text>>.  The codec name is looked up without
\* regard to case; a name no codec has is a LookupError.  Latin-1 decodes
\* every byte; the lone non-ASCII byte is neither ASCII nor valid UTF-8.
\* Empty bytes decode to the empty string before any codec is looked up.
Decode(b, codec) ==
    LET c == Casefold(codec)
    IN  IF b = <<>> THEN <<"", <<>>>>
        ELSE IF c = Latin1S
        THEN <<"", [i \in 1..Len(b) |-> IF b[i] = HiByte THEN HiChar ELSE b[i]]>>
        ELSE IF c \in {Utf8S, AsciiS}
        THEN (IF IsAscii(b) THEN <<"", b>> ELSE <<"UnicodeDecodeError", <<>>>>)
        ELSE <<"LookupError", <<>>>>

\* str.encode("ascii"): <<err, bytes>>
EncodeAscii(s) ==
    IF IsAscii(s) THEN <<"", s>> ELSE <<"UnicodeEncodeError", <<>>>>

-----------------------------------------------------------------------------
(* Dates: datetime.datetime as [Y, m, d, H, M], B2F_DATE_FORMAT *)

Leap(y) == (y % 4 = 0 /\ y % 100 # 0) \/ y % 400 = 0

DaysIn(y, m) ==
    IF m = 2 THEN (IF Leap(y) THEN 29 ELSE 28)
    ELSE IF m \in {4, 6, 9, 11} THEN 30 ELSE 31

NoDate == [Y |-> 0, m |-> 0, d |-> 0, H |-> 0, M |-> 0]

\* one or two digits
Field2(s) == AllDigits(s) /\ Len(s) <= 2

\* datetime.strptime(s, "%Y/%m/%d %H:%M"): <<ok, date>>
Strptime(s) ==
    LET p1 == Partition(s, <<"/">>)
        p2 == Partition(p1[3], <<"/">>)
        p3 == Partition(p2[3], <<" ">>)
        p4 == Partition(LStrip(p3[3]), <<":">>)
        Ys == p1[1]
        ms == p2[1]
        ds == p3[1]
        Hs == p4[1]
        Ms == p4[3]
        shape == /\ p1[2] # <<>> /\ p2[2] # <<>> /\ p3[2] # <<>> /\ p4[2] # <<>>
                 /\ AllDigits(Ys) /\ Len(Ys) = 4
                 /\ Field2(ms) /\ Field2(ds) /\ Field2(Hs) /\ Field2(Ms)
        dt == [Y |-> DigitsVal(Ys), m |-> DigitsVal(ms), d |-> DigitsVal(ds),
               H |-> DigitsVal(Hs), M |-> DigitsVal(Ms)]
    IN  IF shape /\ dt.Y >= 1 /\ dt.m \in 1..12 /\ dt.d >= 1
             /\ dt.d <= DaysIn(dt.Y, dt.m) /\ dt.H <= 23 /\ dt.M <= 59
        THEN <<TRUE, dt>>
        ELSE <<FALSE, NoDate>>

Pad2(n) == IF n < 10 THEN <<"0">> \o NatStr(n) ELSE NatStr(n)

\* date.strftime("%Y/%m/%d %H:%M")
Strftime(dt) ==
    NatStr(dt.Y) \o <<"/">> \o Pad2(dt.m) \o <<"/">> \o Pad2(dt.d)
        \o <<" ">> \o Pad2(dt.H) \o <<":">> \o Pad2(dt.M)

-----------------------------------------------------------------------------
(* B2FMessage.parse *)

\* the dataclass; type is <<>> for None and <<t>> for a string t
NullMsg ==
    [mid |-> <<>>, date |-> NoDate, type |-> <<>>, from_ |-> <<>>,
     to |-> <<>>, cc |-> <<>>, subject |-> <<>>, mbo |-> <<>>,
     extra_headers |-> <<>>, body |-> <<>>, files |-> <<>>]

Raise(e) == [ok |-> FALSE, err |-> e, msg |-> NullMsg]

\* the loop that fills headers: one entry per distinct name as written,
\* each value appended in line order
RECURSIVE BuildHeaders(_, _)
BuildHeaders(lines, headers) ==
    IF lines = <<>> THEN headers
    ELSE LET p == Partition(Head(lines), <<":", " ">>)
             k == p[1]
             v == p[3]
         IN  BuildHeaders(Tail(lines),
                 IF DictHas(headers, k)
                 THEN DictSet(headers, k, Append(DictGet(headers, k), v))
                 ELSE DictSet(headers, k, <<v>>))

\* {k.casefold(): v for k, v in headers.items()}: a later entry whose
\* folded name is already present replaces the value list
RECURSIVE CasefoldHeaders(_, _)
CasefoldHeaders(headers, acc) ==
    IF headers = <<>> THEN acc
    ELSE CasefoldHeaders(Tail(headers),
             DictSet(acc, Casefold(headers[1].k), headers[1].v))

\* get_single_header: <<err, value>>
GetSingleHeader(cf, name) ==
    LET n == Casefold(name)
    IN  IF ~DictHas(cf, n) THEN <<"KeyError", <<>>>>
        ELSE IF Len(DictGet(cf, n)) # 1 THEN <<"AssertionError", <<>>>>
        ELSE <<"", DictGet(cf, n)[1]>>

\* the loop over casefolded_headers["file"]: <<ok, files>>
RECURSIVE ParseFiles(_, _, _)
ParseFiles(entries, contents, file_offset) ==
    IF entries = <<>> THEN <<TRUE, <<>>>>
    ELSE LET p == Partition(Head(entries), <<" ">>)
             file_len == ParseInt(p[1])
             file_name == p[3]
             file_end == file_offset + file_len[2]
             rest == ParseFiles(Tail(entries), contents, file_end + 2)
         IN  IF ~file_len[1] \/ ~rest[1] THEN <<FALSE, <<>>>>
             ELSE <<TRUE, <<<<file_name, Slice(contents, file_offset, file_end)>>>>
                            \o rest[2]>>

\* ExtraHeaders with the name compared as written, not folded
RECURSIVE ExtraHeadersAsWritten(_)
ExtraHeadersAsWritten(headers) ==
    IF headers = <<>> THEN <<>>
    ELSE IF IsKnown(headers[1].k) THEN ExtraHeadersAsWritten(Tail(headers))
    ELSE <<headers[1]>> \o ExtraHeadersAsWritten(Tail(headers))

\* extra_headers: the entries of headers whose folded name is not known
RECURSIVE ExtraHeaders(_)
ExtraHeaders(headers) ==
    IF headers = <<>> THEN <<>>
    ELSE IF IsKnown(Casefold(headers[1].k)) THEN ExtraHeaders(Tail(headers))
    ELSE <<headers[1]>> \o ExtraHeaders(Tail(headers))

Parse(d) ==
    LET parts == Partition(d, CRLF \o CRLF)
        header_data == parts[1]
        contents == parts[3]
        headers == BuildHeaders(SplitLines(header_data), <<>>)
        cf == CasefoldHeaders(headers, <<>>)
        bodyH == GetSingleHeader(cf, BodyS)
        body_length == ParseInt(bodyH[2])
        ctH == IF DictHas(cf, ContentTypeS)
               THEN GetSingleHeader(cf, ContentTypeS)
               ELSE <<"", Latin1S>>
        body == Decode(Slice(contents, 0, body_length[2]), ctH[2])
        files == ParseFiles(DictGet(cf, FileS), contents, body_length[2] + 2)
        midH == GetSingleHeader(cf, MidS)
        dateH == GetSingleHeader(cf, DateS)
        date == Strptime(dateH[2])
        typeH == GetSingleHeader(cf, TypeS)
        fromH == GetSingleHeader(cf, FromS)
        subjectH == GetSingleHeader(cf, SubjectS)
        mboH == GetSingleHeader(cf, MboS)
    IN  IF ~IsAscii(header_data) THEN Raise("UnicodeDecodeError")
        ELSE IF bodyH[1] # "" THEN Raise(bodyH[1])
        ELSE IF ~body_length[1] THEN Raise("ValueError")
        ELSE IF ctH[1] # "" THEN Raise(ctH[1])
        ELSE IF body[1] # "" THEN Raise(body[1])
        ELSE IF ~DictHas(cf, FileS) THEN Raise("KeyError")
        ELSE IF ~files[1] THEN Raise("ValueError")
        ELSE IF midH[1] # "" THEN Raise(midH[1])
        ELSE IF dateH[1] # "" THEN Raise(dateH[1])
        ELSE IF ~date[1] THEN Raise("ValueError")
        ELSE IF DictHas(cf, TypeS) /\ typeH[1] # "" THEN Raise(typeH[1])
        ELSE IF fromH[1] # "" THEN Raise(fromH[1])
        ELSE IF ~DictHas(cf, ToS) THEN Raise("KeyError")
        ELSE IF subjectH[1] # "" THEN Raise(subjectH[1])
        ELSE IF mboH[1] # "" THEN Raise(mboH[1])
        ELSE [ok |-> TRUE, err |-> "",
              msg |-> [mid |-> midH[2],
                       date |-> date[2],
                       type |-> IF DictHas(cf, TypeS) THEN <<typeH[2]>> ELSE <<>>,
                       from_ |-> fromH[2],
                       to |-> DictGet(cf, ToS),
                       cc |-> IF DictHas(cf, CcS) THEN DictGet(cf, CcS) ELSE <<>>,
                       subject |-> subjectH[2],
                       mbo |-> mboH[2],
                       extra_headers |-> ExtraHeaders(headers),
                       body |-> body[2],
                       files |-> files[2]]]

-----------------------------------------------------------------------------
(* B2FMessage.to_lines and to_bytes *)

MidN == <<"M","i","d">>
DateN == <<"D","a","t","e">>
TypeN == <<"T","y","p","e">>
FromN == <<"F","r","o","m">>
ToN == <<"T","o">>
CcN == <<"C","c">>
SubjectN == <<"S","u","b","j","e","c","t">>
MboN == <<"M","b","o">>
BodyN == <<"B","o","d","y">>
FileN == <<"F","i","l","e">>

Scalar(s) == [kind |-> "scalar", vals |-> <<s>>]
List(l) == [kind |-> "list", vals |-> l]
None == [kind |-> "none", vals |-> <<>>]

\* f"{len(contents)} {file_name}" for each file
FileValues(files) ==
    [i \in 1..Len(files) |-> IntStr(Len(files[i][2])) \o <<" ">> \o files[i][1]]

\* **self.extra_headers: each entry set in turn
RECURSIVE Merge(_, _)
Merge(headers, extra) ==
    IF extra = <<>> THEN headers
    ELSE Merge(DictSet(headers, extra[1].k, List(extra[1].v)), Tail(extra))

\* HeaderDict with Cc placed after Subject
HeaderDictCcLate(self, body) ==
    Merge(<<[k |-> MidN, v |-> Scalar(self.mid)],
            [k |-> DateN, v |-> Scalar(Strftime(self.date))],
            [k |-> TypeN, v |-> IF self.type = <<>> THEN None
                                ELSE Scalar(self.type[1])],
            [k |-> FromN, v |-> Scalar(self.from_)],
            [k |-> ToN, v |-> List(self.to)],
            [k |-> SubjectN, v |-> Scalar(self.subject)],
            [k |-> CcN, v |-> List(self.cc)],
            [k |-> MboN, v |-> Scalar(self.mbo)],
            [k |-> BodyN, v |-> Scalar(IntStr(Len(body)))],
            [k |-> FileN, v |-> List(FileValues(self.files))]>>,
          self.extra_headers)

\* the headers dict of to_lines, body being the encoded body
HeaderDict(self, body) ==
    Merge(<<[k |-> MidN, v |-> Scalar(self.mid)],
            [k |-> DateN, v |-> Scalar(Strftime(self.date))],
            [k |-> TypeN, v |-> IF self.type = <<>> THEN None
                                ELSE Scalar(self.type[1])],
            [k |-> FromN, v |-> Scalar(self.from_)],
            [k |-> ToN, v |-> List(self.to)],
            [k |-> CcN, v |-> List(self.cc)],
            [k |-> SubjectN, v |-> Scalar(self.subject)],
            [k |-> MboN, v |-> Scalar(self.mbo)],
            [k |-> BodyN, v |-> Scalar(IntStr(Len(body)))],
            [k |-> FileN, v |-> List(FileValues(self.files))]>>,
          self.extra_headers)

\* if headers["Type"] is None: del headers["Type"]
DropNoneType(headers) ==
    IF DictGet(headers, TypeN).kind = "none" THEN DictDel(headers, TypeN)
    ELSE headers

\* f"{header_name}: {value}" for every value of every entry, in dict order
RECURSIVE HeaderLines(_)
HeaderLines(headers) ==
    IF headers = <<>> THEN <<>>
    ELSE [i \in 1..Len(headers[1].v.vals) |->
             headers[1].k \o <<":", " ">> \o headers[1].v.vals[i]]
         \o HeaderLines(Tail(headers))

\* the lines a generator yields before .encode("ascii") first raises
RECURSIVE AsciiPrefix(_)
AsciiPrefix(lines) ==
    IF lines = <<>> \/ ~IsAscii(lines[1]) THEN <<>>
    ELSE <<lines[1]>> \o AsciiPrefix(Tail(lines))

\* to_lines: [err, chunks], chunks being what was yielded
ToLines(self) ==
    LET body == EncodeAscii(self.body)
        lines == HeaderLines(DropNoneType(HeaderDict(self, body[2])))
    IN  IF body[1] # "" THEN [err |-> body[1], chunks |-> <<>>]
        ELSE IF \E i \in 1..Len(lines) : ~IsAscii(lines[i])
        THEN [err |-> "UnicodeEncodeError", chunks |-> AsciiPrefix(lines)]
        ELSE [err |-> "",
              chunks |-> lines \o <<CRLF, body[2]>>
                         \o [i \in 1..Len(self.files) |-> self.files[i][2]]]

\* to_bytes: b"\r\n".join(self.to_lines())
ToBytes(parts) == Join(CRLF, parts)

-----------------------------------------------------------------------------
(* Inputs of the codec *)

MaxFileLines == 2
MaxBodyLen == 2
MaxFiles == 2

SeqsUpTo(S, n) == UNION {[1..k -> S] : k \in 0..n}

\* header lines every crafted buffer starts with
BaseLines ==
    <<<<"M", "i", "d", ":", " ", "1">>,
      <<"D", "a", "t", "e", ":", " ", "2", "0", "2", "4", "/", "0", "1", "/", "1", "5", " ", "1", "0", ":", "3", "0">>,
      <<"F", "r", "o", "m", ":", " ", "A">>,
      <<"T", "o", ":", " ", "B">>,
      <<"S", "u", "b", "j", "e", "c", "t", ":", " ", "S">>,
      <<"M", "b", "o", ":", " ", "M">>>>

BodyLines ==
    {<<"B", "o", "d", "y", ":", " ", "0">>, <<"B", "o", "d", "y", ":", " ", "1">>, <<"B", "o", "d", "y", ":", " ", "2">>}

FileLineChoices ==
    {<<"F", "i", "l", "e", ":", " ", "0", " ", "x">>,
     <<"F", "i", "l", "e", ":", " ", "1", " ", "a">>,
     <<"F", "i", "l", "e", ":", " ", "2", " ", "b", " ", "c">>,
     <<"f", "i", "l", "e", ":", " ", "1", " ", "d">>,
     <<"F", "i", "l", "e", ":", " ", "-", "1", " ", "n">>}

\* further header lines: none, a repeated name in the same and in another
\* spelling, unknown headers, a charset, Cc and Type lines, a line without
\* ": ", an unknown charset, a length that is no number
MoreLines ==
    {<<>>,
     <<<<"M", "i", "d", ":", " ", "2">>>>,
     <<<<"m", "i", "d", ":", " ", "2">>>>,
     <<<<"X", "-", "A", ":", " ", "1">>, <<"x", "-", "a", ":", " ", "2">>, <<"X", "-", "A", ":", " ", "3">>>>,
     <<<<"C", "o", "n", "t", "e", "n", "t", "-", "T", "y", "p", "e", ":", " ", "u", "t", "f", "-", "8">>, <<"C", "c", ":", " ", "c">>, <<"C", "c", ":", " ", "d">>>>,
     <<<<"n", "o", "v", "a", "l">>, <<"T", "y", "p", "e", ":", " ", "P">>>>,
     <<<<"c", "o", "n", "t", "e", "n", "t", "-", "t", "y", "p", "e", ":", " ", "n", "o", "p", "e">>>>,
     <<<<"F", "i", "l", "e", ":", " ", "z", " ", "q">>>>}

\* what follows the blank line
ContentChoices ==
    {<<>>,
     <<"H", CR, LF, "C", CR, LF, "D", "D", CR, LF, "E">>,
     <<"H", "I", CR, LF, "C", "C">>,
     <<HiByte, CR, LF, "C">>}

\* a buffer with its blank line, and one that ends with its header block
Framed(lines, contents) == Join(CRLF, lines) \o CRLF \o CRLF \o contents
Unframed(lines) == Join(CRLF, lines)

Buffers ==
    LET blocks == {BaseLines \o <<b>> \o f \o m :
                      b \in BodyLines,
                      f \in SeqsUpTo(FileLineChoices, MaxFileLines),
                      m \in MoreLines}
    IN  {Framed(l, c) : l \in blocks, c \in ContentChoices}
        \cup {Unframed(l) : l \in blocks}

Date1 == [Y |-> 2024, m |-> 1, d |-> 15, H |-> 10, M |-> 30]
Date2 == [Y |-> 1999, m |-> 12, d |-> 31, H |-> 23, M |-> 59]

\* the header fields of the messages to encode: the plain one; every
\* optional field filled; an empty to list and a charset header; an extra
\* header under a known name; an extra header without values
Profiles ==
    {[mid |-> <<"1">>, date |-> Date1, type |-> <<>>, from_ |-> <<"A">>,
      to |-> <<<<"B">>>>, cc |-> <<>>, subject |-> <<"S">>, mbo |-> <<"M">>,
      extra_headers |-> <<>>],
     [mid |-> <<"2">>, date |-> Date2, type |-> <<<<"P">>>>, from_ |-> <<"A">>,
      to |-> <<<<"B">>, <<"C">>>>, cc |-> <<<<"D">>>>, subject |-> <<"S", " ", "T">>,
      mbo |-> <<"M">>,
      extra_headers |-> <<[k |-> <<"X", "-", "A">>, v |-> <<<<"1">>, <<"2">>>>],
                          [k |-> <<"x", "-", "b">>, v |-> <<<<"3">>>>]>>],
     [mid |-> <<"3">>, date |-> Date1, type |-> <<>>, from_ |-> <<"A">>,
      to |-> <<>>, cc |-> <<<<"D">>, <<"E">>>>, subject |-> <<"S">>, mbo |-> <<"M">>,
      extra_headers |-> <<[k |-> <<"C", "o", "n", "t", "e", "n", "t", "-", "T", "y", "p", "e">>,
                           v |-> <<AsciiS>>]>>],
     [mid |-> <<"4">>, date |-> Date1, type |-> <<>>, from_ |-> <<"A">>,
      to |-> <<<<"B">>>>, cc |-> <<>>, subject |-> <<"S">>, mbo |-> <<"M">>,
      extra_headers |-> <<[k |-> SubjectN, v |-> <<<<"Z">>>>]>>],
     [mid |-> <<"5">>, date |-> Date2, type |-> <<<<"P">>>>, from_ |-> <<"A">>,
      to |-> <<<<"B">>>>, cc |-> <<>>, subject |-> <<"S">>, mbo |-> <<"M">>,
      extra_headers |-> <<[k |-> <<"X", "-", "A">>, v |-> <<>>]>>]}

Bodies == SeqsUpTo({"H", LF}, MaxBodyLen) \cup {<<HiChar>>}

FileChoices ==
    {<<<<"a">>, <<>>>>,
     <<<<"b", " ", "c">>, <<"C">>>>,
     <<<<"d">>, <<"C", "A", "T">>>>}

Messages ==
    {[mid |-> p.mid, date |-> p.date, type |-> p.type, from_ |-> p.from_,
      to |-> p.to, cc |-> p.cc, subject |-> p.subject, mbo |-> p.mbo,
      extra_headers |-> p.extra_headers, body |-> b, files |-> f] :
        p \in Profiles, b \in Bodies, f \in SeqsUpTo(FileChoices, MaxFiles)}

-----------------------------------------------------------------------------
(* The codec applied to its inputs *)

NotYet == [ok |-> FALSE, err |-> "not run", msg |-> NullMsg]

ImportIdle ==
    /\ mailbox = <<>> /\ imported = <<>> /\ todo = {}
    /\ messageTbl = <<>> /\ attachTbl = <<>>
    /\ cur = 0 /\ ipc = "idle" /\ inserted = {}

InitParse ==
    /\ data \in Buffers
    /\ parsed = NotYet
    /\ msg = NullMsg /\ chunks = <<>> /\ encoded = <<>> /\ reparsed = NotYet
    /\ pc = "start"
    /\ ImportIdle

\* B2FMessage.parse(data)
ParseStep ==
    /\ pc = "start"
    /\ parsed' = Parse(data)
    /\ pc' = "parsed"
    /\ UNCHANGED <<data, msg, chunks, encoded, reparsed>>
    /\ UNCHANGED importVars

NextParse == ParseStep

SpecParse == InitParse /\ [][NextParse]_vars

InitEncode ==
    /\ msg \in Messages
    /\ data = <<>> /\ parsed = NotYet
    /\ chunks = <<>> /\ encoded = <<>> /\ reparsed = NotYet
    /\ pc = "start"
    /\ ImportIdle

\* list(msg.to_lines()); a raise ends the run
ToLinesStep ==
    /\ pc = "start"
    /\ chunks' = ToLines(msg).chunks
    /\ pc' = IF ToLines(msg).err = "" THEN "lines" ELSE "raised"
    /\ UNCHANGED <<data, parsed, msg, encoded, reparsed>>
    /\ UNCHANGED importVars

\* msg.to_bytes()
ToBytesStep ==
    /\ pc = "lines"
    /\ encoded' = ToBytes(ToLines(msg).chunks)
    /\ pc' = "bytes"
    /\ UNCHANGED <<data, parsed, msg, chunks, reparsed>>
    /\ UNCHANGED importVars

\* B2FMessage.parse(msg.to_bytes())
ReparseStep ==
    /\ pc = "bytes"
    /\ reparsed' = Parse(encoded)
    /\ pc' = "done"
    /\ UNCHANGED <<data, parsed, msg, chunks, encoded>>
    /\ UNCHANGED importVars

NextEncode == ToLinesStep \/ ToBytesStep \/ ReparseStep

SpecEncode == InitEncode /\ [][NextEncode]_vars

-----------------------------------------------------------------------------
(* import-to-db.py: the loop over the mailbox *)

MaxMailboxFiles == 2
MidMaxLen == 12

FileNames == 1..MaxMailboxFiles

\* what a *.b2f file may hold: two messages, a second message under the
\* first one's mid, and a message without a File header
StoredFiles ==
    {Framed(<<<<"M", "i", "d", ":", " ", "1">>,
              <<"D", "a", "t", "e", ":", " ", "2", "0", "2", "4", "/", "0", "1", "/", "1", "5", " ", "1", "0", ":", "3", "0">>,
              <<"F", "r", "o", "m", ":", " ", "A">>,
              <<"T", "o", ":", " ", "B">>,
              <<"S", "u", "b", "j", "e", "c", "t", ":", " ", "S">>,
              <<"M", "b", "o", ":", " ", "M">>,
              <<"B", "o", "d", "y", ":", " ", "1">>,
              <<"F", "i", "l", "e", ":", " ", "1", " ", "a">>>>,
            <<"H", CR, LF, "C">>),
     Framed(<<<<"M", "i", "d", ":", " ", "2">>,
              <<"D", "a", "t", "e", ":", " ", "2", "0", "2", "4", "/", "0", "1", "/", "1", "5", " ", "1", "0", ":", "3", "0">>,
              <<"F", "r", "o", "m", ":", " ", "A">>,
              <<"T", "o", ":", " ", "B">>,
              <<"S", "u", "b", "j", "e", "c", "t", ":", " ", "S">>,
              <<"M", "b", "o", ":", " ", "M">>,
              <<"B", "o", "d", "y", ":", " ", "0">>,
              <<"F", "i", "l", "e", ":", " ", "0", " ", "x">>>>,
            <<>>),
     Framed(<<<<"M", "i", "d", ":", " ", "1">>,
              <<"D", "a", "t", "e", ":", " ", "2", "0", "2", "4", "/", "0", "1", "/", "1", "5", " ", "1", "0", ":", "3", "0">>,
              <<"F", "r", "o", "m", ":", " ", "A">>,
              <<"T", "o", ":", " ", "B">>,
              <<"S", "u", "b", "j", "e", "c", "t", ":", " ", "S">>,
              <<"M", "b", "o", ":", " ", "M">>,
              <<"B", "o", "d", "y", ":", " ", "2">>,
              <<"F", "i", "l", "e", ":", " ", "0", " ", "y">>>>,
            <<"H", "I">>),
     Framed(<<<<"M", "i", "d", ":", " ", "3">>,
              <<"D", "a", "t", "e", ":", " ", "2", "0", "2", "4", "/", "0", "1", "/", "1", "5", " ", "1", "0", ":", "3", "0">>,
              <<"F", "r", "o", "m", ":", " ", "A">>,
              <<"T", "o", ":", " ", "B">>,
              <<"S", "u", "b", "j", "e", "c", "t", ":", " ", "S">>,
              <<"M", "b", "o", ":", " ", "M">>,
              <<"B", "o", "d", "y", ":", " ", "1">>>>,
            <<"H">>)}

OldFile == <<"o", "l", "d">>

Without(f, x) == [y \in (DOMAIN f) \ {x} |-> f[y]]
With(f, x, v) == [y \in (DOMAIN f) \cup {x} |-> IF y = x THEN v ELSE f[y]]

InitImport ==
    /\ \E S \in SUBSET FileNames : mailbox \in [S -> StoredFiles]
    /\ \E S \in SUBSET FileNames : imported = [y \in S |-> OldFile]
    /\ todo = DOMAIN mailbox
    /\ messageTbl = <<>> /\ attachTbl = <<>>
    /\ cur = 0 /\ ipc = "loop" /\ inserted = {}
    /\ data = <<>> /\ parsed = NotYet /\ msg = NullMsg
    /\ chunks = <<>> /\ encoded = <<>> /\ reparsed = NotYet /\ pc = "idle"

\* imported_filename.exists()
ImportedExists(f) == f \in DOMAIN imported

\* the message row and the attachment rows parse_file inserts
MessageRow(d, m) ==
    [original |-> d, mid |-> m.mid, date |-> m.date, type |-> m.type,
     from_ |-> m.from_, to |-> m.to, cc |-> m.cc, subject |-> m.subject,
     mbo |-> m.mbo, body |-> m.body, extra_headers |-> m.extra_headers]

AttachmentRows(m) ==
    [i \in 1..Len(m.files) |->
        [message_id |-> m.mid, name |-> m.files[i][1], content |-> m.files[i][2]]]

\* the constraints of table message the INSERT can violate
InsertRaises(m) ==
    \/ Len(m.mid) > MidMaxLen
    \/ \E i \in 1..Len(messageTbl) : messageTbl[i].mid = m.mid

\* for f in glob("*.b2f"): the next file, in any order, and the check
\* that its name is free in imported/
NextFile ==
    /\ ipc = "loop"
    /\ \E f \in todo :
          /\ cur' = f
          /\ todo' = todo \ {f}
          /\ ipc' = IF ImportedExists(f) THEN "aborted" ELSE "parse"
    /\ UNCHANGED <<mailbox, imported, messageTbl, attachTbl, inserted>>
    /\ UNCHANGED codecVars

\* ParseFile with a raise swallowed: the loop goes on to the rename
ParseFileSwallowed ==
    /\ ipc = "parse"
    /\ LET d == mailbox[cur]
           r == Parse(d)
       IN  IF ~r.ok \/ InsertRaises(r.msg)
           THEN /\ ipc' = "rename"
                /\ UNCHANGED <<messageTbl, attachTbl, inserted>>
           ELSE /\ messageTbl' = Append(messageTbl, MessageRow(d, r.msg))
                /\ attachTbl' = attachTbl \o AttachmentRows(r.msg)
                /\ inserted' = inserted \cup {cur}
                /\ ipc' = "rename"
    /\ UNCHANGED <<mailbox, imported, todo, cur>>
    /\ UNCHANGED codecVars

\* parse_file(conn, f): decode, then the inserts in one transaction
ParseFile ==
    /\ ipc = "parse"
    /\ LET d == mailbox[cur]
           r == Parse(d)
       IN  IF ~r.ok \/ InsertRaises(r.msg)
           THEN /\ ipc' = "aborted"
                /\ UNCHANGED <<messageTbl, attachTbl, inserted>>
           ELSE /\ messageTbl' = Append(messageTbl, MessageRow(d, r.msg))
                /\ attachTbl' = attachTbl \o AttachmentRows(r.msg)
                /\ inserted' = inserted \cup {cur}
                /\ ipc' = "rename"
    /\ UNCHANGED <<mailbox, imported, todo, cur>>
    /\ UNCHANGED codecVars

\* f.rename(imported_filename): the destination is replaced if it exists
Rename ==
    /\ ipc = "rename"
    /\ imported' = With(imported, cur, mailbox[cur])
    /\ mailbox' = Without(mailbox, cur)
    /\ ipc' = "loop"
    /\ UNCHANGED <<todo, messageTbl, attachTbl, cur, inserted>>
    /\ UNCHANGED codecVars

\* the glob is exhausted
Finish ==
    /\ ipc = "loop"
    /\ todo = {}
    /\ ipc' = "done"
    /\ UNCHANGED <<mailbox, imported, todo, messageTbl, attachTbl, cur, inserted>>
    /\ UNCHANGED codecVars

NextImport == NextFile \/ ParseFile \/ Rename \/ Finish

SpecImport == InitImport /\ [][NextImport]_vars

-----------------------------------------------------------------------------
(* The input buffer as the format describes it, for stating the claims *)

Framing == CRLF \o CRLF

HasFraming(d) == Find(d, Framing) >= 0

\* the lines of the header block and the bytes after the blank line
BlockLines(d) == SplitLines(Partition(d, Framing)[1])
BlockContents(d) == Partition(d, Framing)[3]

LineName(l) == Partition(l, <<":", " ">>)[1]
LineValue(l) == Partition(l, <<":", " ">>)[3]

RECURSIVE Collect(_, _)
Collect(lines, name) ==
    IF lines = <<>> THEN <<>>
    ELSE IF Casefold(LineName(lines[1])) = name
         THEN <<LineValue(lines[1])>> \o Collect(Tail(lines), name)
         ELSE Collect(Tail(lines), name)

\* the values of the lines whose name is name, compared without case
ValuesOf(d, name) == Collect(BlockLines(d), name)

RECURSIVE CollectExact(_, _)
CollectExact(lines, name) ==
    IF lines = <<>> THEN <<>>
    ELSE IF LineName(lines[1]) = name
         THEN <<LineValue(lines[1])>> \o CollectExact(Tail(lines), name)
         ELSE CollectExact(Tail(lines), name)

\* the names, as written, of the lines with no known name, each once, in
\* order of first appearance
RECURSIVE UnknownNames(_, _)
UnknownNames(lines, seen) ==
    IF lines = <<>> THEN <<>>
    ELSE LET n == LineName(lines[1])
         IN  IF IsKnown(Casefold(n)) \/ n \in seen
             THEN UnknownNames(Tail(lines), seen)
             ELSE <<n>> \o UnknownNames(Tail(lines), seen \cup {n})

FileLen(v) == ParseInt(Partition(v, <<" ">>)[1])
FileName(v) == Partition(v, <<" ">>)[3]

IsNat(r) == r[1] /\ r[2] >= 0

\* the attachments the File values fv declare, the first one at offset c
\* of contents: bytes c .. c + len - 1, the next one 2 bytes further
RECURSIVE Declared(_, _, _)
Declared(fv, contents, c) ==
    IF fv = <<>> THEN <<>>
    ELSE <<<<FileName(fv[1]), SubSeq(contents, c + 1, c + FileLen(fv[1])[2])>>>>
         \o Declared(Tail(fv), contents, c + FileLen(fv[1])[2] + 2)

RECURSIVE Fits(_, _, _)
Fits(fv, n, c) ==
    IF fv = <<>> THEN TRUE
    ELSE /\ IsNat(FileLen(fv[1]))
         /\ c + FileLen(fv[1])[2] <= n
         /\ Fits(Tail(fv), n, c + FileLen(fv[1])[2] + 2)

SingleValued == {MidS, DateS, TypeS, FromS, SubjectS, MboS}

Once(d, name) == Len(ValuesOf(d, name)) = 1

\* a well formed buffer, the File lines left aside
WellFormed(d) ==
    /\ HasFraming(d)
    /\ \A n \in {MidS, DateS, FromS, ToS, SubjectS, MboS, BodyS} : Once(d, n)
    /\ Len(ValuesOf(d, TypeS)) <= 1
    /\ ValuesOf(d, ContentTypeS) = <<>>
    /\ Strptime(ValuesOf(d, DateS)[1])[1]
    /\ IsNat(ParseInt(ValuesOf(d, BodyS)[1]))
    /\ ParseInt(ValuesOf(d, BodyS)[1])[2] <= Len(BlockContents(d))

-----------------------------------------------------------------------------
(* Claims about B2FMessage.parse, under SpecParse *)

\* C2: a well formed buffer without any File line decodes, to a message
\* whose files list is empty.
C2_NoFileLineDecodes ==
    (pc = "parsed" /\ WellFormed(data) /\ ValuesOf(data, FileS) = <<>>)
        => (parsed.ok /\ parsed.msg.files = <<>>)

\* C3: in every accepted buffer each returned attachment has exactly the
\* length a File line declares for it, a non-negative integer.
C3_LengthFidelity ==
    (pc = "parsed" /\ parsed.ok)
        => \A k \in 1..Len(parsed.msg.files) :
              \E i \in 1..Len(ValuesOf(data, FileS)) :
                 LET v == ValuesOf(data, FileS)[i]
                 IN  /\ FileName(v) = parsed.msg.files[k][1]
                     /\ IsNat(FileLen(v))
                     /\ FileLen(v)[2] = Len(parsed.msg.files[k][2])

\* C4: a header block in which mid, date, type, from, subject or mbo
\* occurs on two or more lines, in whatever case, is rejected.
C4_DuplicateRejected ==
    (pc = "parsed" /\ \E n \in SingleValued : Len(ValuesOf(data, n)) >= 2)
        => ~parsed.ok

\* C5: a buffer that does not contain CR LF CR LF is rejected.
C5_UnframedRejected ==
    (pc = "parsed" /\ ~HasFraming(data)) => ~parsed.ok

\* C7: when the contents hold every declared length, the k-th File line
\* yields attachment k, at offset body_length + 2 for the first and 2 bytes
\* after the previous one for the others, one attachment per File line.
C7_AttachmentOffsets ==
    LET fv == ValuesOf(data, FileS)
        bl == ParseInt(ValuesOf(data, BodyS)[1])
    IN  (/\ pc = "parsed" /\ parsed.ok
         /\ Once(data, BodyS) /\ IsNat(bl)
         /\ Fits(fv, Len(BlockContents(data)), bl[2] + 2))
            => parsed.msg.files = Declared(fv, BlockContents(data), bl[2] + 2)

\* C9: in every accepted buffer extra_headers holds no known name in any
\* case, and holds every other header of the block under its name as
\* written, in order of first appearance, with its values in line order.
C9_ExtraHeaders ==
    (pc = "parsed" /\ parsed.ok)
        => LET eh == parsed.msg.extra_headers
           IN  /\ \A i \in 1..Len(eh) : ~IsKnown(Casefold(eh[i].k))
               /\ DictKeys(eh) = UnknownNames(BlockLines(data), {})
               /\ \A i \in 1..Len(eh) :
                     eh[i].v = CollectExact(BlockLines(data), eh[i].k)

\* an accepted buffer with two unknown headers, one of them on two lines
C9_Witness ==
    /\ pc = "parsed" /\ parsed.ok
    /\ Len(parsed.msg.extra_headers) = 2
    /\ \E i \in 1..2 : Len(parsed.msg.extra_headers[i].v) = 2

-----------------------------------------------------------------------------
(* Claims about to_lines and to_bytes, under SpecEncode *)

\* the invariants of the data model a message can break
Invariants(m) ==
    /\ IsAscii(m.body)
    /\ \A i \in 1..Len(m.extra_headers) : ~IsKnown(Casefold(m.extra_headers[i].k))

DictItems(d) == {<<d[i].k, d[i].v>> : i \in 1..Len(d)}

\* equality of two messages, extra_headers compared as dicts are
MsgEq(a, b) ==
    /\ a.mid = b.mid /\ a.date = b.date /\ a.type = b.type
    /\ a.from_ = b.from_ /\ a.to = b.to /\ a.cc = b.cc
    /\ a.subject = b.subject /\ a.mbo = b.mbo
    /\ a.body = b.body /\ a.files = b.files
    /\ DictItems(a.extra_headers) = DictItems(b.extra_headers)

\* C1: parse(m.to_bytes()) is a message equal to m.
C1_RoundTrip ==
    (pc = "done" /\ Invariants(msg)) => (reparsed.ok /\ MsgEq(reparsed.msg, msg))

RECURSIVE Packed(_)
Packed(files) ==
    IF files = <<>> THEN <<>>
    ELSE CRLF \o files[1][2] \o Packed(Tail(files))

\* C6: after the first CR LF CR LF come the body, then for each
\* attachment one CR LF and its bytes, and nothing else.
C6_EncoderFraming ==
    (pc \in {"bytes", "done"} /\ IsAscii(msg.body))
        => /\ HasFraming(encoded)
           /\ BlockContents(encoded) = msg.body \o Packed(msg.files)

Line(name, value) == name \o <<":", " ">> \o value

LinesOf(name, values) == [i \in 1..Len(values) |-> Line(name, values[i])]

RECURSIVE ExtraLines(_)
ExtraLines(extra) ==
    IF extra = <<>> THEN <<>>
    ELSE LinesOf(extra[1].k, extra[1].v) \o ExtraLines(Tail(extra))

\* the header lines in the order Mid, Date, Type, From, To, Cc, Subject,
\* Mbo, Body, File, extra headers
OrderedLines(m) ==
    <<Line(MidN, m.mid), Line(DateN, Strftime(m.date))>>
    \o LinesOf(TypeN, m.type)
    \o <<Line(FromN, m.from_)>>
    \o LinesOf(ToN, m.to)
    \o LinesOf(CcN, m.cc)
    \o <<Line(SubjectN, m.subject), Line(MboN, m.mbo),
         Line(BodyN, IntStr(Len(m.body)))>>
    \o LinesOf(FileN, FileValues(m.files))
    \o ExtraLines(m.extra_headers)

\* C8: to_lines yields the header lines in the fixed order, and the blank
\* line chunk right after them.
C8_HeaderOrder ==
    (pc \in {"lines", "bytes", "done"} /\ Invariants(msg))
        => LET n == Len(OrderedLines(msg))
           IN  /\ Len(chunks) > n
               /\ SubSeq(chunks, 1, n) = OrderedLines(msg)
               /\ chunks[n + 1] = CRLF

\* a message with a type, two to entries, two attachments and two extra
\* headers has been encoded
C8_Witness ==
    /\ pc = "lines" /\ Invariants(msg)
    /\ msg.type # <<>> /\ Len(msg.to) = 2 /\ Len(msg.files) = 2
    /\ Len(msg.extra_headers) = 2

-----------------------------------------------------------------------------
(* Claim about the importer, under SpecImport *)

\* C10: a file enters imported/ only after its parse_file call returned;
\* a name taken in imported/ or a raise aborts the run at once; after an
\* abort the current file and the files not yet reached are in the mailbox
\* and were not inserted; no file of imported/ is ever replaced.
C10_ImporterOrdering ==
    /\ [][\A f \in FileNames :
             (f \notin DOMAIN imported /\ f \in DOMAIN imported')
                 => (f \in inserted /\ f \in DOMAIN mailbox
                     /\ Parse(mailbox[f]).ok
                     /\ imported'[f] = mailbox[f])]_vars
    /\ [][\A f \in DOMAIN imported :
             f \in DOMAIN imported' /\ imported'[f] = imported[f]]_vars
    /\ [][(ipc = "loop" /\ todo # {} /\ cur' \in DOMAIN imported)
             => ipc' = "aborted"]_vars
    /\ [][(ipc = "parse" /\ ~Parse(mailbox[cur]).ok) => ipc' = "aborted"]_vars
    /\ [][ipc # "aborted"]_vars
    /\ [](ipc = "aborted" =>
             /\ (todo \cup {cur}) \subseteq DOMAIN mailbox
             /\ (todo \cup {cur}) \cap inserted = {}
             /\ \A f \in todo \cup {cur} :
                   \A i \in 1..Len(messageTbl) :
                      messageTbl[i].original = mailbox[f]
                          => \E g \in inserted : imported[g] = mailbox[f])

\* the run aborted on its second file after the first one was inserted
\* and renamed
C10_Witness ==
    /\ ipc = "aborted"
    /\ \E f \in inserted : f \in DOMAIN imported /\ f \notin DOMAIN mailbox
    /\ cur \in DOMAIN mailbox

=============================================================================
